---- MODULE Spec2Model ----
(***************************************************************************)
(* Ten-pin bowling scorer: the BowlingGame class of bowling_game.py.       *)
(*                                                                         *)
(* The state of a game is its list of recorded rolls.  roll(pins) appends  *)
(* one validated roll, score() walks ten frames over the list with a       *)
(* cursor and returns the total.  Indices are 0-based as in the source;    *)
(* the list itself is a TLA+ sequence, so element i of the source is       *)
(* r[i + 1] here.                                                          *)
(***************************************************************************)
EXTENDS Integers, Sequences, FiniteSets

VARIABLES rolls,     \* self.rolls
          lastCall,  \* the method called last: "init", "roll" or "score"
          arg,       \* the argument of the last roll() call, NoArg otherwise
          raised,    \* TRUE iff the last call raised ValueError
          ret,       \* the value the last score() call returned, 0 otherwise
          script     \* the caller's planned rolls (scripted games), <<>> if none

vars == <<rolls, lastCall, arg, raised, ret, script>>

----------------------------------------------------------------------------
(* Bounds of the explored executions.                                      *)

\* roll_many(n, pins) of the test suite: at most MaxMany equal leading rolls.
MaxMany == 20
\* Number of freely chosen rolls recorded after that prefix.
FreeLen == 3
\* Longest repeating roll pattern of the scripted games without marks.
MaxPeriod == 3

----------------------------------------------------------------------------
(* Program constant.                                                       *)

\* Faulty variant: one loop iteration too many.
NumFrames_OneMore == 10 + 1

\* for _ in range(10): a game has ten frames.
NumFrames == 10

----------------------------------------------------------------------------
(* Arguments a caller can pass to roll().  A Python value is modelled by   *)
(* its type and its numeric value val + frac/10.                           *)

IntArg(n) == [kind |-> "int", val |-> n, frac |-> 0]
FloatArg(n, f) == [kind |-> "float", val |-> n, frac |-> f]
\* bool is a subclass of int: True == 1, False == 0.
BoolArg(b) == [kind |-> "bool", val |-> IF b THEN 1 ELSE 0, frac |-> 0]
NoArg == [kind |-> "none", val |-> 0, frac |-> 0]

\* isinstance(pins, int)
isinstance_int(pins) == pins.kind \in {"int", "bool"}

\* Faulty variants of roll()'s guards, used to show the properties below
\* depend on them: no upper limit, an upper limit one too low, no lower limit.
roll_raises_NoUpper(pins) ==
    IF pins.kind \notin {"int", "bool"} THEN TRUE
    ELSE pins.val < 0

roll_raises_UpperOffByOne(pins) ==
    IF pins.kind \notin {"int", "bool"} THEN TRUE
    ELSE pins.val < 0 \/ pins.val >= 10

roll_raises_NoLower(pins) ==
    IF pins.kind \notin {"int", "bool"} THEN TRUE
    ELSE pins.val > 10

\* The two guards of roll(): TRUE iff roll(pins) raises ValueError.  The
\* range test is reached only by an int.
roll_raises(pins) ==
    IF ~isinstance_int(pins) THEN TRUE
    ELSE pins.val < 0 \/ pins.val > 10

\* self.rolls after roll(pins) returned normally.  A bool is appended as it
\* is; it equals, and adds as, its integer value.
roll_append(r, pins) == Append(r, pins.val)

----------------------------------------------------------------------------
(* Helper methods of BowlingGame, on a roll list r and a 0-based index i.  *)

\* self.rolls[i] for an index inside the list.
ListGet(r, i) == r[i + 1]

\* Faulty variant: the bound is one too low, the last roll reads as 0.
_safe_get_OffByOne(r, i) == IF i < Len(r) - 1 THEN ListGet(r, i) ELSE 0

_safe_get(r, i) == IF i < Len(r) THEN ListGet(r, i) ELSE 0

_is_strike(r, i) == i < Len(r) /\ ListGet(r, i) = 10

_is_spare(r, i) ==
    (i + 1) < Len(r) /\ (ListGet(r, i) + ListGet(r, i + 1) = 10)

\* Faulty variant: only the next roll counts as a strike's bonus.
_strike_bonus_OneRoll(r, i) == _safe_get(r, i + 1)

\* Faulty variant: the strike's own roll is counted into its bonus.
_strike_bonus_FromStrike(r, i) ==
    _safe_get(r, i) + _safe_get(r, i + 1) + _safe_get(r, i + 2)

_strike_bonus(r, i) == _safe_get(r, i + 1) + _safe_get(r, i + 2)

_spare_bonus(r, i) == _safe_get(r, i + 2)

\* Faulty variant: the second roll of the frame is read one place too far.
_frame_pins_Skip(r, i) == _safe_get(r, i) + _safe_get(r, i + 2)

_frame_pins(r, i) == _safe_get(r, i) + _safe_get(r, i + 1)

\* Faulty variant: a spare scores its bonus but not its ten pins.
FramePoints_SpareBonusOnly(r, i) ==
    IF _is_strike(r, i) THEN 10 + _strike_bonus(r, i)
    ELSE IF _is_spare(r, i) THEN _spare_bonus(r, i)
    ELSE _frame_pins(r, i)

\* What one iteration of score()'s loop adds to score, cursor at i.
FramePoints(r, i) ==
    IF _is_strike(r, i) THEN 10 + _strike_bonus(r, i)
    ELSE IF _is_spare(r, i) THEN 10 + _spare_bonus(r, i)
    ELSE _frame_pins(r, i)

\* What one iteration of score()'s loop adds to frame_index, cursor at i.
FrameAdvance(r, i) ==
    IF _is_strike(r, i) THEN 1
    ELSE IF _is_spare(r, i) THEN 2
    ELSE 2

\* score()'s loop: n iterations done, cursor frame_index, running total acc.
RECURSIVE ScoreLoop(_, _, _, _)
ScoreLoop(r, n, frame_index, acc) ==
    IF n >= NumFrames THEN acc
    ELSE ScoreLoop(r, n + 1,
                   frame_index + FrameAdvance(r, frame_index),
                   acc + FramePoints(r, frame_index))

\* The cursor (frame_index) at the start of score()'s k-th iteration, k >= 1.
RECURSIVE FrameStart(_, _)
FrameStart(r, k) ==
    IF k <= 1 THEN 0
    ELSE LET i == FrameStart(r, k - 1) IN i + FrameAdvance(r, i)

\* What score()'s k-th iteration adds to the total.
FrameScoreAt(r, k) == FramePoints(r, FrameStart(r, k))

\* BowlingGame.score() on the roll list r.
score(r) == ScoreLoop(r, 0, 0, 0)

\* Faulty variant: score() consumes the list it walks.
score_rolls_Consume(r) == IF r = <<>> THEN r ELSE Tail(r)

\* self.rolls after score() returned: score() assigns nothing to it.
score_rolls(r) == r

----------------------------------------------------------------------------
(* The methods as steps of the game object.                                *)

\* BowlingGame.__init__: no rolls recorded yet.
Init ==
    /\ rolls = <<>>
    /\ lastCall = "init"
    /\ arg = NoArg
    /\ raised = FALSE
    /\ ret = 0
    /\ script = <<>>

\* BowlingGame.roll(pins): raise before touching the list, or append.
roll(pins) ==
    /\ lastCall' = "roll"
    /\ arg' = pins
    /\ ret' = 0
    /\ IF roll_raises(pins)
          THEN raised' = TRUE /\ rolls' = rolls
          ELSE raised' = FALSE /\ rolls' = roll_append(rolls, pins)
    /\ UNCHANGED script

\* BowlingGame.score(): returns the total; no statement of it raises.
ComputeScore ==
    /\ lastCall' = "score"
    /\ arg' = NoArg
    /\ raised' = FALSE
    /\ ret' = score(rolls)
    /\ rolls' = score_rolls(rolls)
    /\ UNCHANGED script

----------------------------------------------------------------------------
(* A caller that passes arbitrary arguments.  The explored roll lists are  *)
(* at most MaxMany equal rolls (roll_many) followed by at most FreeLen     *)
(* rolls chosen freely among FreePins.                                     *)

RollManyPins == {0, 5, 10}
FreePins == {0, 2, 7, 8, 10}

ValidArgs == {IntArg(n) : n \in RollManyPins \cup FreePins}
InvalidArgs == {IntArg(0 - 1), IntArg(11), FloatArg(3, 5), FloatArg(5, 0)}
BoolArgs == {BoolArg(FALSE)}
Args == ValidArgs \cup InvalidArgs \cup BoolArgs

InScope(s) ==
    \E n \in 0..Len(s) :
        /\ n <= MaxMany
        /\ Len(s) - n <= FreeLen
        /\ \A i \in 1..n : s[i] = s[1] /\ s[1] \in RollManyPins
        /\ \A i \in (n + 1)..Len(s) : s[i] \in FreePins

RecordRoll ==
    \E pins \in Args :
        /\ script = <<>>
        /\ pins \in InvalidArgs \/ InScope(roll_append(rolls, pins))
        /\ roll(pins)

Next == RecordRoll \/ ComputeScore

Spec == Init /\ [][Next]_vars

----------------------------------------------------------------------------
(* A caller that plays one planned game roll by roll, as the tests and the *)
(* example driver do, and may ask for the score at any point.              *)

Rep(n, p) == [i \in 1..n |-> p]

Periodic(pat, n) == [i \in 1..n |-> pat[((i - 1) % Len(pat)) + 1]]

\* No frame of the 20-roll game g is a strike or a spare.
NoMarks(g) ==
    /\ Len(g) = 20
    /\ \A k \in 0..9 :
          g[2 * k + 1] < 10 /\ g[2 * k + 2] < 10 /\ g[2 * k + 1] + g[2 * k + 2] < 10

\* test_regular_game_no_marks / regular_game()
RegularGame == <<3, 4, 2, 5, 1, 6, 4, 2, 8, 1, 7, 1, 5, 3, 2, 3, 4, 3, 2, 6>>

NoMarkGames ==
    {RegularGame} \cup
    {g \in {Periodic(pat, 20) :
                pat \in UNION {[1..L -> 0..9] : L \in 1..MaxPeriod}} : NoMarks(g)}

\* test_single_strike_followed_by_three_and_four, for every open a, b
StrikeGames ==
    {<<10, a, b>> \o Rep(16, 0) : a \in 0..9, b \in 0..9}

\* test_single_spare_followed_by_three, for every spare x, 10 - x and next roll c
SpareGames ==
    {<<x, 10 - x, c>> \o Rep(17, 0) : x \in 0..9, c \in 0..10}

\* test_perfect_game / perfect_game()
PerfectGame == Rep(12, 10)
\* test_all_spares / all_spares()
AllSparesGame == Rep(21, 5)
\* example_game()
ExampleGame == <<10, 3, 6, 5, 5, 8, 1, 10, 10, 10, 9, 0, 7, 3, 10, 10, 8>>

\* Games whose tenth frame earns bonus rolls: eight equal frames, any of a
\* few ninth frames, a tenth-frame strike or spare, the bonus rolls, and
\* possibly one roll too many.
EarlyFrames == {<<10>>, <<5, 5>>, <<3, 4>>}
NinthFrames == {<<10>>, <<5, 5>>, <<0, 10>>, <<3, 4>>, <<0, 0>>}
BonusPins == {0, 3, 7, 10}
TenthFrames ==
    {<<10, b1, b2>> : b1 \in BonusPins, b2 \in BonusPins}
    \cup {<<x, 10 - x, b1>> : x \in {0, 5, 9}, b1 \in BonusPins}
ExtraRolls == {<<>>, <<7>>}

RECURSIVE Times(_, _)
Times(f, n) == IF n = 0 THEN <<>> ELSE f \o Times(f, n - 1)

BonusGames ==
    {Times(e, 8) \o f9 \o f10 \o x :
        e \in EarlyFrames, f9 \in NinthFrames, f10 \in TenthFrames, x \in ExtraRolls}

Games ==
    NoMarkGames \cup StrikeGames \cup SpareGames \cup BonusGames
    \cup {PerfectGame, AllSparesGame, ExampleGame}

GamesInit ==
    /\ rolls = <<>>
    /\ lastCall = "init"
    /\ arg = NoArg
    /\ raised = FALSE
    /\ ret = 0
    /\ script \in Games

PlayRoll ==
    /\ Len(rolls) < Len(script)
    /\ roll(IntArg(script[Len(rolls) + 1]))

GamesNext == PlayRoll \/ ComputeScore

SpecGames == GamesInit /\ [][GamesNext]_vars

----------------------------------------------------------------------------
(* Properties.                                                             *)

RECURSIVE SumRolls(_)
SumRolls(r) == IF r = <<>> THEN 0 ELSE Head(r) + SumRolls(Tail(r))

RECURSIVE SumFrames(_, _)
SumFrames(r, k) == IF k = 0 THEN 0 ELSE FrameScoreAt(r, k) + SumFrames(r, k - 1)

\* C1: a roll() call whose argument is below 0, above 10 or not an integer
\* raises the invalid-roll error and leaves the roll list exactly as it was.
C1_InvalidRollRejected ==
    [][(lastCall' = "roll"
          /\ (arg'.kind = "float" \/ arg'.val < 0 \/ arg'.val > 10))
        => (raised' /\ rolls' = rolls)]_vars

\* roll(3.5) has just been rejected in a game that already holds rolls.
C1_Witness ==
    /\ lastCall = "roll" /\ raised
    /\ arg = FloatArg(3, 5)
    /\ Len(rolls) >= 12

\* C2: a roll() call with an integer in 0..10 succeeds whatever was rolled
\* before and however many rolls there are; the list becomes the previous
\* list with pins appended.
C2_ValidRollAppends ==
    [][(lastCall' = "roll" /\ arg'.kind = "int" /\ arg'.val \in 0..10)
        => (~raised' /\ rolls' = Append(rolls, arg'.val))]_vars

\* Ten full frames are recorded, and then 7 and 8 are accepted as well.
C2_Witness ==
    /\ lastCall = "roll" /\ ~raised
    /\ Len(rolls) = 22
    /\ rolls[21] = 7 /\ rolls[22] = 8

\* C3: whatever arguments roll() was called with, every recorded roll is an
\* integer in 0..10.
C3_RollsInRange ==
    \A i \in 1..Len(rolls) : rolls[i] \in 0..10

\* roll(11) has just been refused in a game with rolls recorded.
C3_Witness ==
    /\ lastCall = "roll" /\ raised
    /\ arg = IntArg(11)
    /\ Len(rolls) >= 3

\* C4: score() leaves the roll list unchanged, and a score() call that
\* directly follows a score() call returns the same value.
C4_ScoreReadOnly ==
    [][lastCall' = "score"
        => (rolls' = rolls /\ (lastCall = "score" => ret' = ret))]_vars

\* score() has returned 145 for twenty rolls of 5 (ten spares, no bonus
\* roll yet).
C4_Witness ==
    /\ lastCall = "score"
    /\ rolls = [i \in 1..20 |-> 5]
    /\ ret = 145

\* C5: score() never fails: in every state it returns a non-negative
\* integer, 0 for the empty game, and the value it would return if every
\* index past the end of the list held a recorded 0.
C5_ScoreTotal ==
    /\ score(rolls) \in Nat
    /\ rolls = <<>> => score(rolls) = 0
    /\ score(rolls) = score(rolls \o [i \in 1..21 |-> 0])
    /\ lastCall = "score" => (~raised /\ ret = score(rolls))

\* score() was called after ten strikes, before the bonus rolls.
C5_Witness ==
    /\ lastCall = "score" /\ ~raised
    /\ rolls = [i \in 1..10 |-> 10]
    /\ ret = 270

\* C6: the score never decreases: no step, in particular no successful
\* roll(), lowers the value score() computes.
C6_ScoreMonotonic ==
    [][rolls' # rolls => score(rolls') >= score(rolls)]_vars

\* Nine strikes, then 7 and 8 in the tenth frame (15 pins in one frame).
C6_Witness ==
    /\ lastCall = "roll" /\ ~raised
    /\ rolls = [i \in 1..9 |-> 10] \o <<7, 8>>

\* C10: in every state score() is at most 300.
C10_ScoreAtMost300 ==
    score(rolls) <= 300

\* More than twelve strikes are recorded and the score is 300.
C10_Witness ==
    /\ Len(rolls) > 12
    /\ score(rolls) = 300

\* C8: a game of exactly 20 rolls in which no frame is a strike or a spare
\* scores the plain sum of its rolls.
C8_NoMarksScoreIsSum ==
    (Len(rolls) = 20 /\ NoMarks(rolls)) => score(rolls) = SumRolls(rolls)

\* The regular game of the tests has been played and scored: 72.
C8_Witness ==
    /\ rolls = RegularGame
    /\ lastCall = "score"
    /\ ret = 72

\* A strike, two rolls that leave pins standing, then 16 gutter balls.
StrikeShape(r) ==
    /\ Len(r) = 19
    /\ r[1] = 10
    /\ r[2] + r[3] < 10
    /\ \A i \in 4..19 : r[i] = 0

\* A spare, one more roll, then 17 gutter balls.
SpareShape(r) ==
    /\ Len(r) = 20
    /\ r[1] < 10
    /\ r[1] + r[2] = 10
    /\ \A i \in 4..20 : r[i] = 0

\* C9: in a complete game a strike frame contributes 10 plus the next two
\* rolls and advances the cursor by one roll, a spare frame contributes 10
\* plus the next roll and advances it by two; so a strike then a, b scores
\* 10 + 2(a + b), a spare then c scores 10 + 2c, twelve strikes score 300,
\* 21 fives score 150 and the example game scores 190.
C9_StrikeAndSpareScoring ==
    /\ StrikeShape(rolls) => score(rolls) = 10 + 2 * (rolls[2] + rolls[3])
    /\ SpareShape(rolls) => score(rolls) = 10 + 2 * rolls[3]
    /\ rolls = PerfectGame => score(rolls) = 300
    /\ rolls = AllSparesGame => score(rolls) = 150
    /\ rolls = ExampleGame => score(rolls) = 190
    /\ (script # <<>> /\ rolls = script) =>
          \A k \in 1..10 :
              LET i == FrameStart(rolls, k) IN
              /\ rolls[i + 1] = 10 =>
                    /\ FrameScoreAt(rolls, k) = 10 + rolls[i + 2] + rolls[i + 3]
                    /\ FrameStart(rolls, k + 1) = i + 1
              /\ (rolls[i + 1] # 10 /\ rolls[i + 1] + rolls[i + 2] = 10) =>
                    /\ FrameScoreAt(rolls, k) = 10 + rolls[i + 3]
                    /\ FrameStart(rolls, k + 1) = i + 2

\* The example game of the driver has been played and scored: 190.
C9_Witness ==
    /\ rolls = ExampleGame
    /\ lastCall = "score"
    /\ ret = 190

\* The roll at 0-based index j, 0 if it has not been thrown.
RollOrZero(r, j) == IF j < Len(r) THEN r[j + 1] ELSE 0

\* The tenth frame as score() parses it, and the bonus rolls it earns.
TenthStart(r) == FrameStart(r, 10)
TenthIsStrike(r) == RollOrZero(r, TenthStart(r)) = 10
TenthIsSpare(r) ==
    /\ ~TenthIsStrike(r)
    /\ TenthStart(r) + 1 < Len(r)
    /\ r[TenthStart(r) + 1] + r[TenthStart(r) + 2] = 10
NinthIsStrike(r) == RollOrZero(r, FrameStart(r, 9)) = 10
\* 0-based index of the first bonus roll.
BonusStart(r) == TenthStart(r) + (IF TenthIsStrike(r) THEN 1 ELSE 2)
HasBonusRolls(r) ==
    /\ TenthIsStrike(r) \/ TenthIsSpare(r)
    /\ Len(r) > BonusStart(r)
BonusSum(r) ==
    IF TenthIsStrike(r)
    THEN RollOrZero(r, BonusStart(r)) + RollOrZero(r, BonusStart(r) + 1)
    ELSE RollOrZero(r, BonusStart(r))
\* The game with everything after the tenth frame's own rolls removed.
WithoutBonus(r) == SubSeq(r, 1, BonusStart(r))

\* C7 as stated: bonus rolls count only inside the tenth frame's strike or
\* spare computation; they add to no other frame's contribution and are
\* never scored as an eleventh frame.
C7_BonusOnlyInTenthFrame ==
    HasBonusRolls(rolls) =>
        /\ \A k \in 1..9 :
              FrameScoreAt(rolls, k) = FrameScoreAt(WithoutBonus(rolls), k)
        /\ FrameScoreAt(rolls, 10) = 10 + BonusSum(rolls)
        /\ score(rolls) = SumFrames(rolls, 10)

\* C7 amended: bonus rolls count only as lookahead bonus values: inside the
\* tenth frame's strike or spare computation and, when the ninth and tenth
\* frames are both strikes, the first bonus roll also inside the ninth
\* frame's strike bonus.  They add nothing to frames 1..8 and are never
\* scored as an eleventh frame.
C7_BonusOnlyAsLookahead ==
    HasBonusRolls(rolls) =>
        /\ \A k \in 1..8 :
              FrameScoreAt(rolls, k) = FrameScoreAt(WithoutBonus(rolls), k)
        /\ FrameScoreAt(rolls, 9) =
              FrameScoreAt(WithoutBonus(rolls), 9)
              + (IF NinthIsStrike(rolls) /\ TenthIsStrike(rolls)
                 THEN RollOrZero(rolls, BonusStart(rolls)) ELSE 0)
        /\ FrameScoreAt(rolls, 10) = 10 + BonusSum(rolls)
        /\ score(rolls) = SumFrames(rolls, 10)

\* Eight open frames, strikes in the ninth and tenth, bonus rolls 7 and 3:
\* the 7 is counted by the ninth and by the tenth frame.
C7_Witness ==
    /\ rolls = Times(<<3, 4>>, 8) \o <<10>> \o <<10, 7, 3>>
    /\ lastCall = "score"
    /\ ret = 103

====
